---- MODULE Spec2Model ----
(***************************************************************************)
(* A model of pqxx::result (include/pqxx/result.hxx) and of the numeric    *)
(* and binary-escaping utilities of include/pqxx/util.hxx.                 *)
(*                                                                         *)
(* Seven specifications share the module's variables:                      *)
(*   Spec         the life of result objects over shared PGresult buffers; *)
(*   SpecColumns  checked indexing and column information of one result;   *)
(*   SpecCast     check_cast on every value of small integral types;       *)
(*   SpecCodec    size_esc_bin, size_unesc_bin, esc_bin, unesc_bin;        *)
(*   SpecEquality operator== and operator!= on two results;                *)
(*   SpecSwap     swap among three results;                                *)
(*   SpecFailures the calls of the read path that fail.                    *)
(***************************************************************************)
EXTENDS Integers, Sequences, FiniteSets, TLC

(***************************************************************************)
(* Bounds of the model.                                                    *)
(***************************************************************************)
MaxHandles == 2     \* result objects that can exist at once
MaxBuffers == 1     \* PGresult buffers the engine hands out in one run
MaxRows == 1        \* rows of the largest PGresult
MaxCols == 2        \* columns of the largest PGresult

Handles == 1..MaxHandles
BlockIds == 1..MaxHandles

\* nullptr: the pointer value of a shared_ptr that holds no PGresult.
NULL == 0

(***************************************************************************)
(* State.                                                                  *)
(***************************************************************************)
VARIABLES
    handles,    \* the result objects: live, m_data, m_query, m_encoding
    blocks,     \* the shared_ptr control blocks: owned pointer and use count
    buffers,    \* the PGresult buffers the engine has produced so far
    released,   \* per buffer: how often clear_result has been called on it
    last,       \* the last operation on a result and what it returned
    cast,       \* check_cast: the call and its outcome
    codec       \* the binary codec: the call and its outcome

vars == <<handles, blocks, buffers, released, last, cast, codec>>

(***************************************************************************)
(* The engine's data: what a PGresult holds.                               *)
(***************************************************************************)
Names == {"id", "name", "Name"}
\* A field is null, or holds bytes.
Field(isnull, bytes) == [null |-> isnull, bytes |-> bytes]
NullField == Field(TRUE, <<>>)
NullQuery == "nullptr"
MONOBYTE == "MONOBYTE"

\* The query text and encoding tag the construction path is given in Spec.
Origins == {<<"SELECT", "UTF8">>}

PGresult(r, c, n, v) ==
    [ntuples |-> r, nfields |-> c, fname |-> n, value |-> v]

\* The result set of r rows and c columns whose columns carry the names of
\* nm in turn and whose fields all hold v.
Uniform(r, c, nm, v) ==
    PGresult(r, c, [k \in 1..c |-> nm[((k - 1) % Len(nm)) + 1]],
             [i \in 1..r |-> [k \in 1..c |-> v]])

\* The result sets the construction path is fed in Spec: a command's (no
\* rows, no columns), a query's without rows, and a query's with rows.
RawResults ==
    {Uniform(0, 0, <<"id">>, NullField),
     Uniform(0, MaxCols, <<"id", "name">>, NullField),
     Uniform(MaxRows, MaxCols, <<"id", "name">>, Field(FALSE, <<120>>))}

(***************************************************************************)
(* std::shared_ptr<PGresult const> with the deleter clear_result.          *)
(***************************************************************************)
NoHandle == [live |-> FALSE, m_data |-> NULL, m_query |-> NullQuery,
             m_encoding |-> MONOBYTE]
FreeBlock == [ptr |-> NULL, use |-> 0, deleter |-> "none"]

\* internal::clear_result(PGresult const *): releases the buffer (PQclear);
\* a null pointer is accepted and releases nothing.
clear_result(rel, p) == IF p = NULL THEN rel ELSE [rel EXCEPT ![p] = @ + 1]

\* The control block a new shared_ptr{res, clear_result} allocates.
NewBlock(bl) == CHOOSE k \in BlockIds :
                    /\ bl[k].use = 0
                    /\ \A j \in BlockIds : j < k => bl[j].use # 0

\* Copying a shared_ptr: one more owner of its control block.
Acquire(bl, d) == IF d = NULL THEN bl ELSE [bl EXCEPT ![d].use = @ + 1]

\* The deleter a control block was given, run on the pointer it owns.
RunDeleter(rel, block) ==
    IF block.deleter = "clear_result" THEN clear_result(rel, block.ptr) ELSE rel

\* Dropping a shared_ptr (reset, overwrite, destruction): one owner fewer;
\* the last owner runs the deleter on the owned pointer, a null one included.
\* st is <<blocks, released>>.
Release(st, d) ==
    IF d = NULL THEN st
    ELSE IF st[1][d].use = 1
         THEN <<[st[1] EXCEPT ![d] = FreeBlock], RunDeleter(st[2], st[1][d])>>
         ELSE <<[st[1] EXCEPT ![d].use = @ - 1], st[2]>>

\* make_data_pointer as data_pointer{res}: no deleter is registered.
make_data_pointer_plain(bl, res) ==
    LET k == NewBlock(bl)
    IN  <<[bl EXCEPT ![k] = [ptr |-> res, use |-> 1, deleter |-> "delete"]], k>>

\* result::make_data_pointer(res): data_pointer{res, internal::clear_result}.
\* Yields <<the new blocks, the new shared_ptr>>.
make_data_pointer(bl, res) ==
    LET k == NewBlock(bl)
    IN  <<[bl EXCEPT ![k] =
              [ptr |-> res, use |-> 1, deleter |-> "clear_result"]], k>>

\* m_data.get()
get(h) == IF handles[h].m_data = NULL THEN NULL
          ELSE blocks[handles[h].m_data].ptr

(***************************************************************************)
(* Observers of one result.                                                *)
(***************************************************************************)
\* operator! with the test of operator bool.
OpNot_inverted(h) == get(h) # NULL

\* bool operator!() const noexcept { return m_data.get() == nullptr; }
OpNot(h) == get(h) = NULL

\* operator bool() const noexcept { return m_data.get() != nullptr; }
OpBool(h) == get(h) # NULL

\* size(): the row count; 0 for a result without a buffer.
size(h) == IF get(h) = NULL THEN 0 ELSE buffers[get(h)].ntuples

\* columns(): the column count; 0 for a result without a buffer.
columns(h) == IF get(h) = NULL THEN 0 ELSE buffers[get(h)].nfields

\* empty(): the zero-check of size().
empty(h) == size(h) = 0

\* query(): the query text, or the empty string if none was recorded.
query(h) == IF handles[h].m_query = NullQuery THEN "" ELSE handles[h].m_query

\* get_is_null / get_value / get_length: the field at (row, col), read from
\* the buffer at the time of the call.
get_value(h, row, col) == buffers[get(h)].value[row + 1][col + 1]

\* All fields of a result, row-major.
Contents(h) == IF get(h) = NULL THEN <<>> ELSE buffers[get(h)].value

\* What a caller can see of a live result.
View(h) == [data |-> handles[h].m_data, ptr |-> get(h), size |-> size(h),
            columns |-> columns(h), contents |-> Contents(h),
            query |-> query(h)]

Live == {h \in Handles : handles[h].live}

\* The results whose m_data owns buffer b.
Referring(b) == {h \in Live : get(h) = b}

(***************************************************************************)
(* Operations on results.                                                  *)
(***************************************************************************)
\* result() noexcept: m_data(make_data_pointer()), m_query(), MONOBYTE.
DefaultConstruct(h) ==
    /\ ~handles[h].live
    /\ LET made == make_data_pointer(blocks, NULL)
       IN  /\ blocks' = made[1]
           /\ handles' = [handles EXCEPT ![h] =
                  [live |-> TRUE, m_data |-> made[2], m_query |-> NullQuery,
                   m_encoding |-> MONOBYTE]]
    /\ last' = [op |-> "result", h |-> h]
    /\ UNCHANGED <<buffers, released>>

\* The buffers the engine has produced, and the next one's address.
BufferIds == 1..Len(buffers)
NextBuffer == Len(buffers) + 1

\* result(PGresult *rhs, shared_ptr<string> query, encoding_group enc), as
\* the construction gate calls it on a PGresult fresh from the engine.
Create(h, raw, q, enc) ==
    /\ ~handles[h].live
    /\ Len(buffers) < MaxBuffers
    /\ LET b == NextBuffer
           made == make_data_pointer(blocks, b)
       IN  /\ buffers' = Append(buffers, raw)
           /\ released' = Append(released, 0)
           /\ blocks' = made[1]
           /\ handles' = [handles EXCEPT ![h] =
                  [live |-> TRUE, m_data |-> made[2], m_query |-> q,
                   m_encoding |-> enc]]
           /\ last' = [op |-> "create", h |-> h]

\* result(result const &rhs) noexcept = default
CopyConstruct(h, rhs) ==
    /\ ~handles[h].live
    /\ handles[rhs].live
    /\ blocks' = Acquire(blocks, handles[rhs].m_data)
    /\ handles' = [handles EXCEPT ![h] = handles[rhs]]
    /\ last' = [op |-> "copy", h |-> h]
    /\ UNCHANGED <<buffers, released>>

\* result &operator=(result const &rhs) noexcept = default: each member is
\* assigned; the shared_ptr takes its new owner before it drops the old one.
CopyAssign(h, rhs) ==
    /\ handles[h].live
    /\ handles[rhs].live
    /\ LET st == Release(<<Acquire(blocks, handles[rhs].m_data), released>>,
                         handles[h].m_data)
       IN  /\ blocks' = st[1]
           /\ released' = st[2]
    /\ handles' = [handles EXCEPT ![h] = handles[rhs]]
    /\ last' = [op |-> "assign", h |-> h]
    /\ UNCHANGED buffers

\* clear() that releases the buffer itself, whoever else shares it.
clear_unshared(h) ==
    /\ handles[h].live
    /\ blocks' = blocks
    /\ released' = clear_result(released, get(h))
    /\ handles' = [handles EXCEPT ![h].m_data = NULL, ![h].m_query = NullQuery]
    /\ last' = [op |-> "clear", h |-> h, ptr |-> get(h)]
    /\ UNCHANGED buffers

\* void clear() noexcept { m_data.reset(); m_query = nullptr; }
clear(h) ==
    /\ handles[h].live
    /\ LET st == Release(<<blocks, released>>, handles[h].m_data)
       IN  /\ blocks' = st[1]
           /\ released' = st[2]
    /\ handles' = [handles EXCEPT ![h].m_data = NULL, ![h].m_query = NullQuery]
    /\ last' = [op |-> "clear", h |-> h, ptr |-> get(h)]
    /\ UNCHANGED buffers

\* What a swap leaves in last: the two results, the results as they were
\* before the call, and whether the call before it swapped the same two.
Swapped(h, rhs) ==
    [op |-> "swap", h |-> h, rhs |-> rhs, before |-> handles,
     again |-> last.op = "swap" /\ {last.h, last.rhs} = {h, rhs}]

\* swap that exchanges m_data and m_query and leaves m_encoding in place.
swap_without_encoding(h, rhs) ==
    /\ handles[h].live
    /\ handles[rhs].live
    /\ handles' = [handles EXCEPT
                      ![h] = [handles[rhs] EXCEPT
                                 !.m_encoding = handles[h].m_encoding],
                      ![rhs] = [handles[h] EXCEPT
                                   !.m_encoding = handles[rhs].m_encoding]]
    /\ last' = Swapped(h, rhs)
    /\ UNCHANGED <<blocks, buffers, released>>

\* void swap(result &) noexcept: the two results exchange their state.
swap(h, rhs) ==
    /\ handles[h].live
    /\ handles[rhs].live
    /\ handles' = [handles EXCEPT ![h] = handles[rhs], ![rhs] = handles[h]]
    /\ last' = Swapped(h, rhs)
    /\ UNCHANGED <<blocks, buffers, released>>

\* ~result(): the members are destroyed, m_data among them.
Destroy(h) ==
    /\ handles[h].live
    /\ LET st == Release(<<blocks, released>>, handles[h].m_data)
       IN  /\ blocks' = st[1]
           /\ released' = st[2]
    /\ handles' = [handles EXCEPT ![h] = NoHandle]
    /\ last' = [op |-> "destroy", h |-> h]
    /\ UNCHANGED buffers

NoCall == [op |-> "none"]

Init ==
    /\ handles = [h \in Handles |-> NoHandle]
    /\ blocks = [k \in BlockIds |-> FreeBlock]
    /\ buffers = <<>>
    /\ released = <<>>
    /\ last = NoCall
    /\ cast = NoCall
    /\ codec = NoCall

Next ==
    \/ \E h \in Handles : DefaultConstruct(h) /\ UNCHANGED <<cast, codec>>
    \/ \E h \in Handles, raw \in RawResults, o \in Origins :
          Create(h, raw, o[1], o[2]) /\ UNCHANGED <<cast, codec>>
    \/ \E h, rhs \in Handles : CopyConstruct(h, rhs) /\ UNCHANGED <<cast, codec>>
    \/ \E h, rhs \in Handles : CopyAssign(h, rhs) /\ UNCHANGED <<cast, codec>>
    \/ \E h \in Handles : clear(h) /\ UNCHANGED <<cast, codec>>
    \/ \E h, rhs \in Handles : swap(h, rhs) /\ UNCHANGED <<cast, codec>>
    \/ \E h \in Handles : Destroy(h) /\ UNCHANGED <<cast, codec>>

Spec == Init /\ [][Next]_vars

(***************************************************************************)
(* C1: clear_result runs on every buffer handed to the construction path   *)
(* exactly once: never while a result still refers to the buffer, never a  *)
(* second time, and as soon as no result refers to it any more.            *)
(***************************************************************************)
C1_ReleasedExactlyOnce ==
    \A b \in BufferIds :
        /\ released[b] <= 1
        /\ Referring(b) # {} => released[b] = 0
        /\ Referring(b) = {} => released[b] = 1

\* A buffer two results shared has been released by the clear() of the last.
C1_Witness ==
    /\ last.op = "clear"
    /\ last.ptr # NULL
    /\ released[last.ptr] = 1
    /\ \E h \in Live : h # last.h /\ handles[h].m_data = NULL

(***************************************************************************)
(* C2: clear() on one result changes that result only: every other result  *)
(* keeps its buffer reference, size(), columns(), field contents and       *)
(* query(), and its buffer stays unreleased.                               *)
(***************************************************************************)
C2_ClearFrame ==
    [][\A g \in Handles :
          clear(g) =>
              \A h \in Live \ {g} :
                  /\ handles'[h] = handles[h]
                  /\ View(h)' = View(h)
                  /\ get(h) # NULL => released'[get(h)] = 0]_vars

\* clear() has acted on a result that shared its buffer with a live one.
C2_Witness ==
    /\ last.op = "clear"
    /\ last.ptr # NULL
    /\ \E h \in Live : h # last.h /\ get(h) = last.ptr /\ size(h) > 0

RowIndexes == (0 - 1)..(MaxRows + 1)
ColIndexes == (0 - 1)..(MaxCols + 1)
LookupNames == Names \cup {"nonexistent"}

IndexError == [kind |-> "IndexError"]
LookupError == [kind |-> "LookupError"]
RowView(h, i) == [kind |-> "row", result |-> h, row |-> i]
FieldView(h, i, c) == [kind |-> "field", result |-> h, row |-> i, col |-> c]
ColumnNameOf(n) == [kind |-> "name", name |-> n]
ColumnNumberOf(k) == [kind |-> "number", number |-> k]

\* row at(size_type i): fails when i >= size(), else operator[](i).
at(h, i) == IF i >= size(h) THEN IndexError ELSE RowView(h, i)

\* field at(size_type row_num, row_size_type col_num): fails when either
\* index is at or past its count.
at_field(h, i, c) ==
    IF i >= size(h) THEN IndexError
    ELSE IF c >= columns(h) THEN IndexError
    ELSE FieldView(h, i, c)

\* The names of the columns of a result, by column number + 1.
fname(h) == IF get(h) = NULL THEN <<>> ELSE buffers[get(h)].fname

\* char const *column_name(row_size_type number): fails when the number is
\* not that of a column.
column_name(h, k) ==
    IF k < 0 \/ k >= columns(h) THEN IndexError
    ELSE ColumnNameOf(fname(h)[k + 1])

\* The two spellings of a name that differ in case only.
Fold(n) == IF n = "Name" THEN "name" ELSE n

\* column_number that takes names for equal when they differ in case only.
column_number_folding(h, n) ==
    LET hits == {k \in 0..(columns(h) - 1) : Fold(fname(h)[k + 1]) = Fold(n)}
    IN  IF hits = {} THEN {LookupError} ELSE {ColumnNumberOf(k) : k \in hits}

\* row_size_type column_number(zview name): the number of a column with
\* exactly that name; fails when no column has it.  Which of several
\* columns of one name is reported is left open: the set of outcomes.
column_number(h, n) ==
    LET hits == {k \in 0..(columns(h) - 1) : fname(h)[k + 1] = n}
    IN  IF hits = {} THEN {LookupError} ELSE {ColumnNumberOf(k) : k \in hits}

At(h, i) ==
    /\ handles[h].live
    /\ last' = [op |-> "at", h |-> h, row |-> i, ret |-> at(h, i)]
    /\ UNCHANGED <<handles, blocks, buffers, released>>

AtField(h, i, c) ==
    /\ handles[h].live
    /\ last' = [op |-> "at_field", h |-> h, row |-> i, col |-> c,
                ret |-> at_field(h, i, c)]
    /\ UNCHANGED <<handles, blocks, buffers, released>>

ColumnName(h, k) ==
    /\ handles[h].live
    /\ last' = [op |-> "column_name", h |-> h, col |-> k,
                ret |-> column_name(h, k)]
    /\ UNCHANGED <<handles, blocks, buffers, released>>

ColumnNumber(h, n) ==
    /\ handles[h].live
    /\ \E r \in column_number(h, n) :
           last' = [op |-> "column_number", h |-> h, name |-> n, ret |-> r]
    /\ UNCHANGED <<handles, blocks, buffers, released>>

\* The result sets SpecColumns is run on: every shape and every naming of
\* the columns, all fields alike.
ColumnResults ==
    UNION {{PGresult(r, c, n,
                     [i \in 1..r |-> [k \in 1..c |-> Field(FALSE, <<120>>)]]) :
                n \in [1..c -> Names]} :
           r \in 0..MaxRows, c \in 0..MaxCols}

\* Result 1 has been constructed from a PGresult, or by default.
InitColumns ==
    /\ \/ \E raw \in ColumnResults :
             LET made == make_data_pointer([k \in BlockIds |-> FreeBlock], 1)
             IN  /\ blocks = made[1]
                 /\ handles = [h \in Handles |->
                       IF h = 1 THEN [live |-> TRUE, m_data |-> made[2],
                                      m_query |-> "SELECT",
                                      m_encoding |-> "UTF8"]
                       ELSE NoHandle]
                 /\ buffers = <<raw>>
                 /\ released = <<0>>
       \/ LET made == make_data_pointer([k \in BlockIds |-> FreeBlock], NULL)
          IN  /\ blocks = made[1]
              /\ handles = [h \in Handles |->
                    IF h = 1 THEN [live |-> TRUE, m_data |-> made[2],
                                   m_query |-> NullQuery,
                                   m_encoding |-> MONOBYTE]
                    ELSE NoHandle]
              /\ buffers = <<>>
              /\ released = <<>>
    /\ last = NoCall
    /\ cast = NoCall
    /\ codec = NoCall

NextColumns ==
    \/ \E h \in Handles, i \in RowIndexes : At(h, i) /\ UNCHANGED <<cast, codec>>
    \/ \E h \in Handles, i \in RowIndexes, c \in ColIndexes :
          AtField(h, i, c) /\ UNCHANGED <<cast, codec>>
    \/ \E h \in Handles, k \in ColIndexes :
          ColumnName(h, k) /\ UNCHANGED <<cast, codec>>
    \/ \E h \in Handles, n \in LookupNames :
          ColumnNumber(h, n) /\ UNCHANGED <<cast, codec>>

SpecColumns == InitColumns /\ [][NextColumns]_vars

(***************************************************************************)
(* C4: at(i) returns the row view of row i when 0 <= i < size() and fails  *)
(* with IndexError for every other i, negative i included; at(i, c)        *)
(* returns a field view only when both indexes are in range and fails with *)
(* IndexError otherwise.                                                   *)
(***************************************************************************)
C4_CheckedIndexing ==
    /\ last.op = "at" =>
           last.ret = IF 0 <= last.row /\ last.row < size(last.h)
                      THEN RowView(last.h, last.row) ELSE IndexError
    /\ last.op = "at_field" =>
           last.ret = IF /\ 0 <= last.row /\ last.row < size(last.h)
                         /\ 0 <= last.col /\ last.col < columns(last.h)
                      THEN FieldView(last.h, last.row, last.col)
                      ELSE IndexError

\* The columns of result h that carry exactly the name n.
Carrying(h, n) == {k \in 0..(columns(h) - 1) : fname(h)[k + 1] = n}

MaxBits == 4

RECURSIVE Pow2(_)
Pow2(n) == IF n = 0 THEN 1 ELSE 2 * Pow2(n - 1)

IntTypes == [signed : BOOLEAN, bits : 2..MaxBits]

\* std::numeric_limits<T>::lowest() and max()
lowest(t) == IF t.signed THEN 0 - Pow2(t.bits - 1) ELSE 0
max(t) == IF t.signed THEN Pow2(t.bits - 1) - 1 ELSE Pow2(t.bits) - 1
ValuesOf(t) == lowest(t)..max(t)

\* static_cast<T>(v) between integral types: v modulo 2^bits, in T's range.
static_cast(t, v) ==
    LET m == v % Pow2(t.bits)
    IN  IF t.signed /\ m > max(t) THEN m - Pow2(t.bits) ELSE m

\* std::make_unsigned_t<T>
make_unsigned(t) == [signed |-> FALSE, bits |-> t.bits]

\* Text is a sequence of symbols; cat2 copies x and then y into one buffer.
cat2(x, y) == x \o y

range_error(message) == [kind |-> "range_error", message |-> message]
Returned(v) == [kind |-> "value", value |-> v]

\* No check failed: there is no message.
Passed == <<>>

\* The underflow checks without the one of signed FROM and unsigned TO.
Underflow_unsigned_unchecked(from, to, value) ==
    IF from.signed /\ to.signed /\ value < lowest(to)
    THEN <<"Cast underflow: ">> ELSE Passed

\* The underflow checks, which signed FROM types get: Passed, or the text
\* the message starts with.
Underflow(from, to, value) ==
    IF from.signed
    THEN IF to.signed
         THEN IF value < lowest(to) THEN <<"Cast underflow: ">> ELSE Passed
         ELSE IF value < 0
              THEN <<"Casting negative value to unsigned type: ">>
              ELSE Passed
    ELSE Passed

\* The overflow check of integral types: the maxima and the value are
\* compared as values of the unsigned types of the same widths.
Overflow(from, to, value) ==
    LET from_max == static_cast(make_unsigned(from), max(from))
        to_max == static_cast(make_unsigned(to), max(to))
    IN  IF from_max > to_max
        THEN IF static_cast(make_unsigned(from), value) > to_max
             THEN <<"Cast overflow: ">> ELSE Passed
        ELSE Passed

\* TO check_cast(FROM value, std::string_view description)
check_cast(from, to, value, description) ==
    LET under == Underflow(from, to, value)
        over == Overflow(from, to, value)
    IN  IF under # Passed THEN range_error(cat2(under, description))
        ELSE IF over # Passed THEN range_error(cat2(over, description))
        ELSE Returned(static_cast(to, value))

Descriptions == {<<>>, <<"binary data size">>}

\* A caller is about to cast a value of type from to type to.
InitCast ==
    /\ handles = [h \in Handles |-> NoHandle]
    /\ blocks = [k \in BlockIds |-> FreeBlock]
    /\ buffers = <<>>
    /\ released = <<>>
    /\ last = NoCall
    /\ codec = NoCall
    /\ \E from \in IntTypes, to \in IntTypes, description \in Descriptions :
           \E value \in ValuesOf(from) :
               cast = [op |-> "call", from |-> from, to |-> to,
                       value |-> value, description |-> description]

CheckCast ==
    /\ cast.op = "call"
    /\ cast' = [op |-> "check_cast", from |-> cast.from, to |-> cast.to,
                value |-> cast.value, description |-> cast.description,
                ret |-> check_cast(cast.from, cast.to, cast.value,
                                   cast.description)]
    /\ UNCHANGED <<handles, blocks, buffers, released, last, codec>>

NextCast == CheckCast

SpecCast == InitCast /\ [][NextCast]_vars

\* The message of a failure ends in the description the caller gave.
CarriesDescription(ret, prefix) ==
    /\ ret.kind = "range_error"
    /\ ret.message = prefix \o cast.description

(***************************************************************************)
(* C6: check_cast accepts every representable value: whenever              *)
(* minimum(TO) <= v <= maximum(TO) it raises no error and returns v, a     *)
(* negative v that fits a narrower signed TO included.                     *)
(***************************************************************************)
C6_AcceptsRepresentable ==
    cast.op = "check_cast" =>
        (lowest(cast.to) <= cast.value /\ cast.value <= max(cast.to)
             => cast.ret = Returned(cast.value))

(***************************************************************************)
(* C7: check_cast never narrows silently: every v outside                  *)
(* [minimum(TO), maximum(TO)] fails with a range error.  Signed to signed  *)
(* below minimum(TO) reports underflow, signed to unsigned below 0 reports *)
(* negative-to-unsigned, above maximum(TO) reports overflow; maximum(TO)   *)
(* itself is returned; every message carries the caller's description.    *)
(***************************************************************************)
C7_RejectsUnrepresentable ==
    cast.op = "check_cast" =>
        /\ cast.value < lowest(cast.to) /\ cast.to.signed
               => CarriesDescription(cast.ret, <<"Cast underflow: ">>)
        /\ cast.value < lowest(cast.to) /\ ~cast.to.signed
               => CarriesDescription(cast.ret,
                      <<"Casting negative value to unsigned type: ">>)
        /\ cast.value > max(cast.to)
               => CarriesDescription(cast.ret, <<"Cast overflow: ">>)
        /\ cast.value = max(cast.to) => cast.ret = Returned(cast.value)
        /\ cast.ret.kind = "value"
               => lowest(cast.to) <= cast.value /\ cast.value <= max(cast.to)

\* One past the maximum of a narrower signed type was refused as overflow,
\* under a description that is not empty.
C7_Witness ==
    /\ cast.op = "check_cast"
    /\ cast.from.signed /\ cast.to.signed /\ cast.to.bits < cast.from.bits
    /\ cast.value = max(cast.to) + 1
    /\ cast.description # <<>>
    /\ cast.ret = range_error(<<"Cast overflow: ", "binary data size">>)

(***************************************************************************)
(* The binary codec: size_esc_bin, size_unesc_bin, esc_bin, unesc_bin.     *)
(* std::size_t is the unsigned type of SizeBits bits.  Characters are      *)
(* one-letter strings, "NUL" is the terminating zero; bytes are 0..255.    *)
(***************************************************************************)
SizeBits == 4       \* width of std::size_t
MaxBytes == 2       \* longest binary string that is escaped
MaxEscaped == 4     \* longest text that is unescaped

size_t(n) == n % Pow2(SizeBits)
SizeValues == 0..(Pow2(SizeBits) - 1)

\* size_esc_bin without room for the trailing zero.
size_esc_bin_unterminated(binary_bytes) == size_t(2 + size_t(2 * binary_bytes))

\* constexpr std::size_t size_esc_bin(std::size_t binary_bytes) noexcept
\* { return 2 + (2 * binary_bytes) + 1; }
size_esc_bin(binary_bytes) == size_t(size_t(2 + size_t(2 * binary_bytes)) + 1)

\* constexpr std::size_t size_unesc_bin(std::size_t escaped_bytes) noexcept
\* { return (escaped_bytes - 2) / 2; }
size_unesc_bin(escaped_bytes) == size_t(escaped_bytes - 2) \div 2

hex_digits == <<"0", "1", "2", "3", "4", "5", "6", "7",
                "8", "9", "a", "b", "c", "d", "e", "f">>

\* The value of a hex digit, upper or lower case; -1 for any other character.
nibble(c) ==
    CASE c = "0" -> 0  [] c = "1" -> 1  [] c = "2" -> 2  [] c = "3" -> 3
      [] c = "4" -> 4  [] c = "5" -> 5  [] c = "6" -> 6  [] c = "7" -> 7
      [] c = "8" -> 8  [] c = "9" -> 9
      [] c \in {"a", "A"} -> 10  [] c \in {"b", "B"} -> 11
      [] c \in {"c", "C"} -> 12  [] c \in {"d", "D"} -> 13
      [] c \in {"e", "E"} -> 14  [] c \in {"f", "F"} -> 15
      [] OTHER -> 0 - 1

\* A char buffer and a byte buffer of n cells nothing has been written to.
Unwritten(n) == [i \in 1..n |-> "unwritten"]
UnwrittenBytes(n) == [i \in 1..n |-> 0 - 1]

\* buffer with the cells of out written over its first Len(out) cells.
WriteTo(buffer, out) ==
    [i \in 1..Len(buffer) |-> IF i <= Len(out) THEN out[i] ELSE buffer[i]]

\* The hex digits of every byte, the low digit first.
RECURSIVE HexOf_low_first(_)
HexOf_low_first(binary_data) ==
    IF binary_data = <<>> THEN <<>>
    ELSE <<hex_digits[(Head(binary_data) % 16) + 1],
           hex_digits[(Head(binary_data) \div 16) + 1]>>
             \o HexOf_low_first(Tail(binary_data))

\* The two hex digits of every byte, in the order of the bytes.
RECURSIVE HexOf(_)
HexOf(binary_data) ==
    IF binary_data = <<>> THEN <<>>
    ELSE <<hex_digits[(Head(binary_data) \div 16) + 1],
           hex_digits[(Head(binary_data) % 16) + 1]>>
             \o HexOf(Tail(binary_data))

\* void esc_bin(basic_string_view<byte> binary_data, char buffer[]) noexcept:
\* the prefix, the hex digits, a trailing zero.  Yields the buffer.
esc_bin(binary_data, buffer) ==
    WriteTo(buffer, <<"\\", "x">> \o HexOf(binary_data) \o <<"NUL">>)

\* std::string esc_bin(basic_string_view<byte> binary_data): a string of
\* size_esc_bin bytes is escaped into and loses the trailing zero.
esc_bin_string(binary_data) ==
    LET bytes == size_esc_bin(Len(binary_data))
        buf == esc_bin(binary_data, Unwritten(bytes))
    IN  SubSeq(buf, 1, bytes - 1)

FormatError == [kind |-> "FormatError"]

\* What is wrong with escaped text, if anything: the prefix, the length of
\* the hex body, a character of it.
Malformed(escaped_data) ==
    \/ Len(escaped_data) < 2
    \/ escaped_data[1] # "\\" \/ escaped_data[2] # "x"
    \/ (Len(escaped_data) - 2) % 2 # 0
    \/ \E i \in 3..Len(escaped_data) : nibble(escaped_data[i]) < 0

\* The bytes a well-formed hex body stands for.
RECURSIVE Unhex(_)
Unhex(body) ==
    IF body = <<>> THEN <<>>
    ELSE <<(nibble(body[1]) * 16) + nibble(body[2])>>
             \o Unhex(SubSeq(body, 3, Len(body)))

\* void unesc_bin(std::string_view escaped_data, std::byte buffer[]): fails
\* on malformed text, else writes the bytes.  Yields the buffer.
unesc_bin(escaped_data, buffer) ==
    IF Malformed(escaped_data) THEN FormatError
    ELSE [kind |-> "bytes",
          buffer |-> WriteTo(buffer,
                         Unhex(SubSeq(escaped_data, 3, Len(escaped_data))))]

\* The owned form that sizes its string before it looks at the text.
unesc_bin_string_sizing_first(escaped_data) ==
    LET bytes == size_unesc_bin(Len(escaped_data))
    IN  IF Malformed(escaped_data)
        THEN [kind |-> "FormatError", sized |-> {Len(escaped_data)}]
        ELSE [kind |-> "bytes", sized |-> {Len(escaped_data)},
              bytes |-> unesc_bin(escaped_data, UnwrittenBytes(bytes)).buffer]

\* std::basic_string<std::byte> unesc_bin(std::string_view escaped_data):
\* the owned form.  sized records the lengths size_unesc_bin was asked about.
unesc_bin_string(escaped_data) ==
    IF Malformed(escaped_data)
    THEN [kind |-> "FormatError", sized |-> {}]
    ELSE LET bytes == size_unesc_bin(Len(escaped_data))
         IN  [kind |-> "bytes", sized |-> {Len(escaped_data)},
              bytes |-> unesc_bin(escaped_data, UnwrittenBytes(bytes)).buffer]

\* The inputs of the codec.
Bytes == {0, 1, 35, 69, 103, 137, 171, 205, 239, 255}
Chars == {"\\", "x", "0", "a", "F", "g"}
SeqsUpTo(S, n) == UNION {[1..k -> S] : k \in 0..n}

InitCodec ==
    /\ handles = [h \in Handles |-> NoHandle]
    /\ blocks = [k \in BlockIds |-> FreeBlock]
    /\ buffers = <<>>
    /\ released = <<>>
    /\ last = NoCall
    /\ cast = NoCall
    /\ \/ \E n \in SizeValues : codec = [op |-> "call", fn |-> "size", n |-> n]
       \/ \E data \in SeqsUpTo(Bytes, MaxBytes) :
              codec = [op |-> "call", fn |-> "esc_bin", data |-> data]
       \/ \E escaped \in SeqsUpTo(Chars, MaxEscaped) :
              codec = [op |-> "call", fn |-> "unesc_bin", escaped |-> escaped]

\* size_esc_bin(n), and size_unesc_bin of n, of the escaped size and of the
\* escaped size less the terminator.
Sizes ==
    /\ codec.op = "call" /\ codec.fn = "size"
    /\ codec' = [op |-> "size", n |-> codec.n,
                 esc |-> size_esc_bin(codec.n),
                 unesc |-> size_unesc_bin(codec.n),
                 back |-> size_unesc_bin(size_esc_bin(codec.n)),
                 back_unterminated |->
                     size_unesc_bin(size_t(size_esc_bin(codec.n) - 1))]
    /\ UNCHANGED <<handles, blocks, buffers, released, last, cast>>

\* esc_bin into a buffer with one cell to spare and into a string, and the
\* string unescaped again, into a string and into a buffer with a cell to
\* spare.
EscBin ==
    /\ codec.op = "call" /\ codec.fn = "esc_bin"
    /\ LET n == Len(codec.data)
           text == esc_bin_string(codec.data)
       IN  codec' = [op |-> "esc_bin", data |-> codec.data,
                     buffer |-> esc_bin(codec.data,
                                        Unwritten(size_esc_bin(n) + 1)),
                     string |-> text,
                     decoded |-> unesc_bin_string(text),
                     decoded_buffer |-> unesc_bin(text, UnwrittenBytes(n + 1))]
    /\ UNCHANGED <<handles, blocks, buffers, released, last, cast>>

\* unesc_bin of any text, into a string and into a buffer.
UnescBin ==
    /\ codec.op = "call" /\ codec.fn = "unesc_bin"
    /\ codec' = [op |-> "unesc_bin", escaped |-> codec.escaped,
                 ret |-> unesc_bin_string(codec.escaped),
                 into |-> unesc_bin(codec.escaped, UnwrittenBytes(MaxEscaped))]
    /\ UNCHANGED <<handles, blocks, buffers, released, last, cast>>

NextCodec == Sizes \/ EscBin \/ UnescBin

SpecCodec == InitCodec /\ [][NextCodec]_vars

(***************************************************************************)
(* C8 as stated: in the arithmetic of std::size_t, size_esc_bin(n) is      *)
(* 2 + 2n + 1, size_unesc_bin(e) is (e - 2) / 2 rounded down, and for      *)
(* every n of the type size_unesc_bin(size_esc_bin(n)) is n, as is         *)
(* size_unesc_bin(size_esc_bin(n) - 1).                                    *)
(***************************************************************************)
C8_SizesInvertEverywhere ==
    codec.op = "size" =>
        /\ codec.esc = (2 + 2 * codec.n + 1) % Pow2(SizeBits)
        /\ codec.unesc = ((codec.n - 2) % Pow2(SizeBits)) \div 2
        /\ codec.back = codec.n
        /\ codec.back_unterminated = codec.n

(***************************************************************************)
(* C8 amended: the two formulas hold as stated; size_unesc_bin gives back  *)
(* n from size_esc_bin(n), and from size_esc_bin(n) - 1, exactly for the n *)
(* below 2^(w-1), w the width of std::size_t; from there on 2n wraps and   *)
(* both give n - 2^(w-1).                                                  *)
(***************************************************************************)
C8_SizesInvertBelowHalf ==
    codec.op = "size" =>
        /\ codec.esc = (2 + 2 * codec.n + 1) % Pow2(SizeBits)
        /\ codec.unesc = ((codec.n - 2) % Pow2(SizeBits)) \div 2
        /\ IF codec.n < Pow2(SizeBits - 1)
           THEN codec.back = codec.n /\ codec.back_unterminated = codec.n
           ELSE /\ codec.back = codec.n - Pow2(SizeBits - 1)
                /\ codec.back_unterminated = codec.n - Pow2(SizeBits - 1)

\* The sizes of a binary string of some bytes whose escaped size is exact.
C8_Witness ==
    /\ codec.op = "size"
    /\ codec.n > 0
    /\ codec.esc = 2 + 2 * codec.n + 1
    /\ codec.back = codec.n
    /\ codec.back_unterminated = codec.n

\* The text of a byte: its high hex digit, then its low one.
DigitsOf(byte) == <<hex_digits[(byte \div 16) + 1], hex_digits[(byte % 16) + 1]>>

(***************************************************************************)
(* C9: unesc_bin(esc_bin(b)) is b for every byte string b; esc_bin writes  *)
(* exactly size_esc_bin(|b|) cells of the caller's buffer: the prefix \x,  *)
(* two hex digits per byte in the order of the bytes, one terminating      *)
(* zero; unesc_bin writes exactly size_unesc_bin(length of the text        *)
(* without terminator) cells of the caller's buffer.                       *)
(***************************************************************************)
C9_CodecRoundTrip ==
    codec.op = "esc_bin" =>
        LET n == Len(codec.data)
            written == size_esc_bin(n)
        IN  /\ codec.decoded.kind = "bytes"
            /\ codec.decoded.bytes = codec.data
            /\ Len(codec.buffer) = written + 1
            /\ codec.buffer[1] = "\\" /\ codec.buffer[2] = "x"
            /\ \A i \in 1..n :
                   <<codec.buffer[2 * i + 1], codec.buffer[2 * i + 2]>>
                       = DigitsOf(codec.data[i])
            /\ codec.buffer[written] = "NUL"
            /\ \A i \in 1..written : codec.buffer[i] # "unwritten"
            /\ codec.buffer[written + 1] = "unwritten"
            /\ codec.string = SubSeq(codec.buffer, 1, written - 1)
            /\ codec.decoded_buffer.kind = "bytes"
            /\ size_unesc_bin(Len(codec.string)) = n
            /\ SubSeq(codec.decoded_buffer.buffer, 1, n) = codec.data
            /\ codec.decoded_buffer.buffer[n + 1] = 0 - 1

\* A binary string of MaxBytes bytes, not all alike, came back unchanged.
C9_Witness ==
    /\ codec.op = "esc_bin"
    /\ Len(codec.data) = MaxBytes
    /\ codec.data[1] # codec.data[2]
    /\ codec.decoded.kind = "bytes"
    /\ codec.decoded.bytes = codec.data

HexDigitChars == {"0", "1", "2", "3", "4", "5", "6", "7", "8", "9",
                  "a", "b", "c", "d", "e", "f", "A", "B", "C", "D", "E", "F"}

SameField(f, g) == f.null = g.null /\ f.bytes = g.bytes

\* operator== that compares the buffer references of the two results.
OpEq_identity(h, rhs) == handles[h].m_data = handles[rhs].m_data

\* bool operator==(result const &) const noexcept: same column count, same
\* row count, and every field pairwise equal, row-major.
OpEq(h, rhs) ==
    /\ columns(h) = columns(rhs)
    /\ size(h) = size(rhs)
    /\ \A row \in 0..(size(h) - 1), col \in 0..(columns(h) - 1) :
           SameField(get_value(h, row, col), get_value(rhs, row, col))

\* bool operator!=(result const &rhs) const noexcept
\* { return not operator==(rhs); }
OpNe(h, rhs) == ~OpEq(h, rhs)

Equal(h, rhs) ==
    /\ handles[h].live
    /\ handles[rhs].live
    /\ last' = [op |-> "operator==", h |-> h, rhs |-> rhs, ret |-> OpEq(h, rhs)]
    /\ UNCHANGED <<handles, blocks, buffers, released>>

NotEqual(h, rhs) ==
    /\ handles[h].live
    /\ handles[rhs].live
    /\ last' = [op |-> "operator!=", h |-> h, rhs |-> rhs, ret |-> OpNe(h, rhs)]
    /\ UNCHANGED <<handles, blocks, buffers, released>>

\* The result set of MaxRows rows and MaxCols columns all of whose fields
\* hold the byte 120, except that its first field is f.
FirstField(f) ==
    LET full == Uniform(MaxRows, MaxCols, <<"id", "name">>, Field(FALSE, <<120>>))
    IN  [full EXCEPT !.value[1][1] = f]

\* The result sets SpecEquality compares: the shapes of RawResults, one
\* column fewer, other column names, and a first field that differs in a
\* byte, in its length, or in its null-state only.
ResultsToCompare ==
    RawResults \cup
    {Uniform(MaxRows, MaxCols - 1, <<"id", "name">>, Field(FALSE, <<120>>)),
     Uniform(MaxRows, MaxCols, <<"Name">>, Field(FALSE, <<120>>)),
     FirstField(Field(FALSE, <<121>>)),
     FirstField(Field(FALSE, <<120, 120>>)),
     FirstField(Field(FALSE, <<>>)),
     FirstField(NullField)}

QueriesToCompare == {"SELECT", "UPDATE"}

\* A result constructed from a PGresult, whose m_data is control block k,
\* and the control block of a shared_ptr that alone owns pointer b.
Constructed(k, q) ==
    [live |-> TRUE, m_data |-> k, m_query |-> q, m_encoding |-> "UTF8"]
OwnedBlock(b) == [ptr |-> b, use |-> 1, deleter |-> "clear_result"]

\* Result 1 has been constructed from a PGresult; result 2 has been
\* constructed from another, or by default, or does not exist yet.
InitEquality ==
    /\ \E x \in ResultsToCompare :
          \/ \E y \in ResultsToCompare, q \in QueriesToCompare :
                /\ buffers = <<x, y>>
                /\ released = <<0, 0>>
                /\ blocks = [k \in BlockIds |->
                                IF k <= 2 THEN OwnedBlock(k) ELSE FreeBlock]
                /\ handles = [h \in Handles |->
                                 IF h = 1 THEN Constructed(1, "SELECT")
                                 ELSE IF h = 2 THEN Constructed(2, q)
                                 ELSE NoHandle]
          \/ \E second \in BOOLEAN :
                /\ buffers = <<x>>
                /\ released = <<0>>
                /\ blocks = [k \in BlockIds |->
                                IF k = 1 THEN OwnedBlock(1)
                                ELSE IF k = 2 /\ second THEN OwnedBlock(NULL)
                                ELSE FreeBlock]
                /\ handles = [h \in Handles |->
                                 IF h = 1 THEN Constructed(1, "SELECT")
                                 ELSE IF h = 2 /\ second
                                      THEN [live |-> TRUE, m_data |-> 2,
                                            m_query |-> NullQuery,
                                            m_encoding |-> MONOBYTE]
                                 ELSE NoHandle]
    /\ last = NoCall
    /\ cast = NoCall
    /\ codec = NoCall

NextEquality ==
    \/ \E h, rhs \in Handles : Equal(h, rhs) /\ UNCHANGED <<cast, codec>>
    \/ \E h, rhs \in Handles : NotEqual(h, rhs) /\ UNCHANGED <<cast, codec>>
    \/ \E h, rhs \in Handles : CopyConstruct(h, rhs) /\ UNCHANGED <<cast, codec>>
    \/ \E h, rhs \in Handles : CopyAssign(h, rhs) /\ UNCHANGED <<cast, codec>>
    \/ \E h \in Handles : clear(h) /\ UNCHANGED <<cast, codec>>

SpecEquality == InitEquality /\ [][NextEquality]_vars

\* The shape and the fields of the result set a result refers to; a result
\* without a buffer has no rows, no columns and no fields.
Structure(h) ==
    IF get(h) = NULL THEN <<0, 0, <<>>>>
    ELSE <<buffers[get(h)].nfields, buffers[get(h)].ntuples,
           buffers[get(h)].value>>

SwapHandles == 1..(MaxHandles + 1)

\* The results that exist, and those among them whose m_data owns buffer b.
Existing == {h \in DOMAIN handles : handles[h].live}
Holders(b) == {h \in Existing : get(h) = b}

\* What a caller can see of every result other than a and b.
Bystanders(a, b) == [t \in Existing \ {a, b} |-> <<handles[t], View(t)>>]

\* Result 1 has been constructed from a PGresult; result 2 from another
\* one, with another query and encoding, or by default; result 3 is a copy
\* of result 1 or of result 2, or does not exist.
InitSwap ==
    /\ \E second \in {"constructed", "default"}, third \in 0..2 :
          LET own == second = "constructed"
          IN  /\ buffers = IF own THEN <<Uniform(MaxRows, MaxCols, <<"id">>,
                                                 Field(FALSE, <<120>>)),
                                         Uniform(0, MaxCols, <<"name">>,
                                                 NullField)>>
                           ELSE <<Uniform(MaxRows, MaxCols, <<"id">>,
                                          Field(FALSE, <<120>>))>>
              /\ released = [b \in DOMAIN buffers |-> 0]
              /\ blocks = [k \in SwapHandles |->
                              IF k = 1
                              THEN [OwnedBlock(1) EXCEPT
                                       !.use = IF third = 1 THEN 2 ELSE 1]
                              ELSE IF k = 2
                              THEN [OwnedBlock(IF own THEN 2 ELSE NULL) EXCEPT
                                       !.use = IF third = 2 THEN 2 ELSE 1]
                              ELSE FreeBlock]
              /\ handles = [h \in SwapHandles |->
                    LET from == IF h = 3 THEN third ELSE h
                    IN  IF from = 1 THEN Constructed(1, "SELECT")
                        ELSE IF from = 2 /\ own
                             THEN [Constructed(2, "UPDATE") EXCEPT
                                      !.m_encoding = "SJIS"]
                        ELSE IF from = 2
                             THEN [live |-> TRUE, m_data |-> 2,
                                   m_query |-> NullQuery,
                                   m_encoding |-> MONOBYTE]
                        ELSE NoHandle]
    /\ last = NoCall
    /\ cast = NoCall
    /\ codec = NoCall

NextSwap ==
    \/ \E h, rhs \in SwapHandles : swap(h, rhs) /\ UNCHANGED <<cast, codec>>
    \/ \E h, rhs \in SwapHandles : CopyAssign(h, rhs) /\ UNCHANGED <<cast, codec>>
    \/ \E h \in SwapHandles : clear(h) /\ UNCHANGED <<cast, codec>>

SpecSwap == InitSwap /\ [][NextSwap]_vars

NullValueError == [kind |-> "NullValueError"]
Errors == {IndexError, LookupError, NullValueError}

\* A piece of information about column k: fails when k is not the number
\* of a column.
ColumnInfo(h, k, what) ==
    IF k < 0 \/ k >= columns(h) THEN IndexError
    ELSE [kind |-> what, col |-> k]

\* oid column_type(row_size_type col_num) const, and the overload by name,
\* in which the failure of column_number is the failure of the call:
\* oid column_type(zview col_name) const
\* { return column_type(column_number(col_name)); }
column_type(h, k) == ColumnInfo(h, k, "type")
column_type_of(h, n) ==
    {IF r = LookupError THEN LookupError ELSE column_type(h, r.number) :
        r \in column_number(h, n)}

\* oid column_table(row_size_type col_num) const, and
\* oid column_table(zview col_name) const
\* { return column_table(column_number(col_name)); }
column_table(h, k) == ColumnInfo(h, k, "table")
column_table_of(h, n) ==
    {IF r = LookupError THEN LookupError ELSE column_table(h, r.number) :
        r \in column_number(h, n)}

\* row_size_type table_column(row_size_type col_num) const, and
\* row_size_type table_column(zview col_name) const
\* { return table_column(column_number(col_name)); }
table_column(h, k) == ColumnInfo(h, k, "table column")
table_column_of(h, n) ==
    {IF r = LookupError THEN LookupError ELSE table_column(h, r.number) :
        r \in column_number(h, n)}

\* The value accessor of the field at (row, col) in its form that does not
\* tolerate null: get_is_null decides, get_value and get_length deliver.
field_value(h, row, col) ==
    IF get_value(h, row, col).null THEN NullValueError
    ELSE [kind |-> "value", bytes |-> get_value(h, row, col).bytes]

\* A const member function whose failure also resets the query text.
Called_resetting_query(c, rets) ==
    /\ handles[c.h].live
    /\ \E r \in rets :
          /\ last' = [op |-> c.op, call |-> c, ret |-> r,
                      again |-> last.op = c.op /\ last.call = c]
          /\ handles' = IF r \in Errors
                        THEN [handles EXCEPT ![c.h].m_query = NullQuery]
                        ELSE handles
    /\ UNCHANGED <<blocks, buffers, released>>

\* A const member function is called on a result and returns one of rets:
\* the members of the result are const in it, and so is the PGresult.  last
\* keeps the call, what it returned, and whether the call before it was the
\* same one.
Called(c, rets) ==
    /\ handles[c.h].live
    /\ \E r \in rets :
          last' = [op |-> c.op, call |-> c, ret |-> r,
                   again |-> last.op = c.op /\ last.call = c]
    /\ UNCHANGED <<handles, blocks, buffers, released>>

CallAt(h, i) == Called([op |-> "at", h |-> h, row |-> i], {at(h, i)})

CallAtField(h, i, c) ==
    Called([op |-> "at_field", h |-> h, row |-> i, col |-> c],
           {at_field(h, i, c)})

CallColumnNumber(h, n) ==
    Called([op |-> "column_number", h |-> h, name |-> n], column_number(h, n))

CallColumnName(h, k) ==
    Called([op |-> "column_name", h |-> h, col |-> k], {column_name(h, k)})

CallColumnType(h, k) ==
    Called([op |-> "column_type", h |-> h, col |-> k], {column_type(h, k)})

CallColumnTypeOf(h, n) ==
    Called([op |-> "column_type", h |-> h, name |-> n], column_type_of(h, n))

CallColumnTable(h, k) ==
    Called([op |-> "column_table", h |-> h, col |-> k], {column_table(h, k)})

CallColumnTableOf(h, n) ==
    Called([op |-> "column_table", h |-> h, name |-> n], column_table_of(h, n))

CallTableColumn(h, k) ==
    Called([op |-> "table_column", h |-> h, col |-> k], {table_column(h, k)})

CallTableColumnOf(h, n) ==
    Called([op |-> "table_column", h |-> h, name |-> n], table_column_of(h, n))

\* The value of a field a Field View refers to, which is a field of the
\* result.
CallFieldValue(h, row, col) ==
    /\ handles[h].live
    /\ row \in 0..(size(h) - 1)
    /\ col \in 0..(columns(h) - 1)
    /\ Called([op |-> "field_value", h |-> h, row |-> row, col |-> col],
              {field_value(h, row, col)})

\* Result 1 has been constructed from a PGresult, or by default; result 2
\* is a copy of it, or does not exist yet.
InitFailures ==
    /\ \E copied \in BOOLEAN :
          LET uses == IF copied THEN 2 ELSE 1
              second == [h \in Handles |-> h = 1 \/ (h = 2 /\ copied)]
          IN  \/ \E raw \in ResultsToCompare :
                    /\ buffers = <<raw>>
                    /\ released = <<0>>
                    /\ blocks = [k \in BlockIds |->
                                    IF k = 1
                                    THEN [OwnedBlock(1) EXCEPT !.use = uses]
                                    ELSE FreeBlock]
                    /\ handles = [h \in Handles |->
                                     IF second[h] THEN Constructed(1, "SELECT")
                                     ELSE NoHandle]
              \/ /\ buffers = <<>>
                 /\ released = <<>>
                 /\ blocks = [k \in BlockIds |->
                                 IF k = 1
                                 THEN [OwnedBlock(NULL) EXCEPT !.use = uses]
                                 ELSE FreeBlock]
                 /\ handles = [h \in Handles |->
                                  IF second[h]
                                  THEN [live |-> TRUE, m_data |-> 1,
                                        m_query |-> NullQuery,
                                        m_encoding |-> MONOBYTE]
                                  ELSE NoHandle]
    /\ last = NoCall
    /\ cast = NoCall
    /\ codec = NoCall

NextFailures ==
    \/ \E h \in Handles, i \in RowIndexes :
          CallAt(h, i) /\ UNCHANGED <<cast, codec>>
    \/ \E h \in Handles, i \in RowIndexes, c \in ColIndexes :
          CallAtField(h, i, c) /\ UNCHANGED <<cast, codec>>
    \/ \E h \in Handles, n \in LookupNames :
          CallColumnNumber(h, n) /\ UNCHANGED <<cast, codec>>
    \/ \E h \in Handles, k \in ColIndexes :
          CallColumnName(h, k) /\ UNCHANGED <<cast, codec>>
    \/ \E h \in Handles, k \in ColIndexes :
          CallColumnType(h, k) /\ UNCHANGED <<cast, codec>>
    \/ \E h \in Handles, n \in LookupNames :
          CallColumnTypeOf(h, n) /\ UNCHANGED <<cast, codec>>
    \/ \E h \in Handles, k \in ColIndexes :
          CallColumnTable(h, k) /\ UNCHANGED <<cast, codec>>
    \/ \E h \in Handles, n \in LookupNames :
          CallColumnTableOf(h, n) /\ UNCHANGED <<cast, codec>>
    \/ \E h \in Handles, k \in ColIndexes :
          CallTableColumn(h, k) /\ UNCHANGED <<cast, codec>>
    \/ \E h \in Handles, n \in LookupNames :
          CallTableColumnOf(h, n) /\ UNCHANGED <<cast, codec>>
    \/ \E h \in Handles, i \in RowIndexes, c \in ColIndexes :
          CallFieldValue(h, i, c) /\ UNCHANGED <<cast, codec>>
    \/ \E h, rhs \in Handles : CopyConstruct(h, rhs) /\ UNCHANGED <<cast, codec>>

SpecFailures == InitFailures /\ [][NextFailures]_vars

\* The operations C13 is about.
ReadPath == {"at", "at_field", "column_number", "column_name", "column_type",
             "column_table", "table_column", "field_value"}

(***************************************************************************)
(* C13: a step in which at(), column_number(), column_name(),              *)
(* column_type(), column_table(), table_column() or a value access fails   *)
(* with IndexError, LookupError or NullValueError leaves every result with *)
(* the same members, every control block with the same use count, every    *)
(* buffer unreleased and with the same contents, and every result with the *)
(* same size(), columns(), fields and query(); and the same call made      *)
(* again fails with the same error.                                        *)
(***************************************************************************)
C13_FailuresMutateNothing ==
    [][(last'.op \in ReadPath /\ last'.ret \in Errors) =>
          /\ handles' = handles
          /\ blocks' = blocks
          /\ buffers' = buffers
          /\ released' = released
          /\ \A h \in Live : View(h)' = View(h)
          /\ last'.again => last'.ret = last.ret]_vars

\* A value access to a null field has failed twice with NullValueError on a
\* result that shares its buffer with another.
C13_Witness ==
    /\ last.op = "field_value"
    /\ last.ret = NullValueError
    /\ last.again
    /\ get_value(last.call.h, last.call.row, last.call.col).null
    /\ \E h \in Live :
          h # last.call.h /\ get(h) = get(last.call.h) /\ get(h) # NULL
    /\ blocks[handles[last.call.h].m_data].use = 2
    /\ released[get(last.call.h)] = 0

====
